---- MODULE Spec2Model ----
(***************************************************************************)
(* A model of pretty_logger (src/src/lib.rs): the Logger installed as the  *)
(* process-wide logger, its two running-maximum width counters, the        *)
(* enabled/log pipeline and the three init entry points.                   *)
(*                                                                         *)
(* Text is a sequence of code points.  A line is the sequence of the       *)
(* fields the format string separates by "|"; writeln!'s trailing newline  *)
(* is implicit in "one line".                                              *)
(***************************************************************************)
EXTENDS Integers, Sequences, FiniteSets, TLC

VARIABLES
    logger,            \* the global logger: None or Some([destination, level, theme])
    max_module_width,  \* Logger.max_module_width (AtomicUsize) of the installed logger
    max_target_width,  \* Logger.max_target_width (AtomicUsize) of the installed logger
    ansi,              \* whether platform_init has enabled ANSI support on the console
    initLog,           \* history: the result of every init* call so far, in order
    pc,                \* per thread: where it stands inside Logger::log
    record,            \* per thread: the Record being logged
    accepted,          \* per thread: what self.enabled(record.metadata()) returned
    old,               \* per thread: the local `old` of the running width update, if any
    module_length,     \* per thread: the local `module_length` of log
    target_length,     \* per thread: the local `target_length` of log
    line,              \* per thread: the line handed to writeln!
    wres,              \* per thread: the io::Result of writeln!
    attempts,          \* per thread: writes attempted for the current record
    seen,              \* history, per thread: the counter values its successful CASes replaced
    tries,             \* history, per thread: failed compare-and-swaps of its running update
    calls,             \* history: number of log calls begun
    written,           \* per destination: lines that reached the stream
    submitted,         \* history, per counter: max candidate handed to the update so far
    retries,           \* history, per counter: failed compare-and-swaps
    increases          \* history, per counter: compare-and-swaps that raised the counter

globals == <<logger, max_module_width, max_target_width, ansi, initLog>>
locals  == <<pc, record, accepted, old, module_length, target_length, line, wres,
             attempts, seen, tries>>
history == <<calls, written, submitted, retries, increases>>
vars    == <<globals, locals, history>>

----------------------------------------------------------------------------
(* Bounds of the model *)

MaxCalls == 2
MaxConcCalls == 3
MaxInits == 2

Threads     == {"t1", "t2", "t3"}
MainThreads == {"t1"}

----------------------------------------------------------------------------
(* Values *)

\* Option<T>: None, or Some(x) holding x
None     == <<>>
Some(x)  == <<x>>
Get(o)   == o[1]

NoRecord == "NoRecord"
NoLine   == <<>>
NoResult == "NoResult"

Destinations == {"Stdout", "Stderr"}
Levels       == {"Error", "Warn", "Info", "Debug", "Trace"}
LevelFilters == {"Off"} \cup Levels
Counters     == {"module", "target"}

\* U0301 is COMBINING ACUTE ACCENT: it extends the grapheme before it.
Extend == {"U0301"}
Names  == { <<"a">>, <<"e", "U0301">>, <<"a", "b">> }
Messages == { <<"h", "i">> }

Max(a, b) == IF a >= b THEN a ELSE b
Min(a, b) == IF a <= b THEN a ELSE b

----------------------------------------------------------------------------
(* Destination *)

DestinationDefault == "Stderr"

----------------------------------------------------------------------------
(* Theme *)

ThemeEmpty ==
    [error |-> "plain", warn |-> "plain", info |-> "plain",
     debug |-> "plain", trace |-> "plain", module |-> "plain"]

ThemeDefault ==
    [error |-> "red_bold", warn |-> "yellow_bold", info |-> "cyan",
     debug |-> "white", trace |-> "white_dimmed", module |-> "plain"]

Themes == {ThemeEmpty, ThemeDefault}

\* Style::paint: a plain style passes the text through, any other wraps it
\* in the style's escape sequence and the reset sequence.
Paint(style, name) ==
    IF style = "plain" THEN <<name>>
    ELSE <<"ESC[" \o style, name, "ESC[0m">>

paint_log_level(theme, level) ==
    CASE level = "Error" -> Paint(theme.error, "ERROR")
      [] level = "Warn"  -> Paint(theme.warn,  "WARN ")
      [] level = "Info"  -> Paint(theme.info,  "INFO ")
      [] level = "Debug" -> Paint(theme.debug, "DEBUG")
      [] level = "Trace" -> Paint(theme.trace, "TRACE")

----------------------------------------------------------------------------
(* Levels of the log facade: Level is Error = 1 .. Trace = 5, LevelFilter   *)
(* adds Off = 0; Level's Ord is the numeric one.                            *)

LevelNum(l) ==
    CASE l = "Error" -> 1 [] l = "Warn" -> 2 [] l = "Info" -> 3
      [] l = "Debug" -> 4 [] l = "Trace" -> 5

\* LevelFilter::to_level
to_level(filter) == IF filter = "Off" THEN None ELSE Some(filter)

enabled_inverted(filter, level) ==
    IF to_level(filter) = None THEN FALSE
    ELSE LevelNum(level) >= LevelNum(Get(to_level(filter)))

\* Logger::enabled
enabled(filter, level) ==
    IF to_level(filter) = None THEN FALSE
    ELSE LevelNum(level) <= LevelNum(Get(to_level(filter)))

----------------------------------------------------------------------------
(* Text *)

\* str.graphemes(true).count(): a break before every code point that is not
\* an Extend; the first code point always starts a cluster.
GraphemeCount(s) ==
    Cardinality({i \in 1..Len(s) : i = 1 \/ s[i] \notin Extend})

\* "{:.*}" with (n, s): the precision of a string argument is a maximum
\* number of chars; nothing is padded.
FormatPrecision(n, s) == SubSeq(s, 1, Min(n, Len(s)))

----------------------------------------------------------------------------
(* Records *)

Unknown == <<"<", "u", "n", "k", "n", "o", "w", "n", ">">>

\* record.module_path().unwrap_or("<unknown>")
ModuleOf(r) == IF r.module_path = None THEN Unknown ELSE Get(r.module_path)

\* the Records a caller of Spec may log
MainRecords ==
    [level : Levels, module_path : {None} \cup {Some(n) : n \in Names},
     target : Names, args : Messages]

\* the Records the concurrent callers of FairSpec may log
ConcRecords ==
    [level : {"Error", "Debug"}, module_path : {Some(<<"a">>), Some(<<"a", "b">>)},
     target : {<<"a">>}, args : Messages]

SameTarget_never(module, target) == FALSE

\* `module == target`
SameTarget(module, target) == module = target

\* the format string "{}|{:.*}|{}" and its arguments
Format3(label, n, module, args) ==
    <<label, FormatPrecision(n, module), args>>

\* the format string "{}|{:.*}|{:.*}|{}" and its arguments
Format4(label, n, module, k, target, args) ==
    <<label, FormatPrecision(n, module), FormatPrecision(k, target), args>>

----------------------------------------------------------------------------
(* The width update: loop { load; max; compare_and_swap } *)

NewWidth_candidate(o, width) == width

\* let new = max(old, width)
NewWidth(o, width) == Max(o, width)

compare_and_swap_blind(current, o, new) == [stored |-> new, prev |-> o]

\* AtomicUsize::compare_and_swap(old, new): stores new iff the value is old,
\* and returns the previous value
compare_and_swap(current, o, new) ==
    [stored |-> IF current = o THEN new ELSE current, prev |-> current]

LoopHead_noReload(c) == c \o "_cas"

\* the head of `loop`, where a failed compare_and_swap resumes: the load
LoopHead(c) == c \o "_load"

\* the history of one compare_and_swap on counter c by thread t
Account(t, c, cas, won) ==
    /\ retries' = IF won THEN retries ELSE [retries EXCEPT ![c] = @ + 1]
    /\ tries' = [tries EXCEPT ![t] = IF won THEN 0 ELSE @ + 1]
    /\ increases' = IF cas.stored > cas.prev
                    THEN [increases EXCEPT ![c] = @ + 1] ELSE increases
    /\ seen' = IF won THEN [seen EXCEPT ![t][c] = Some(cas.prev)] ELSE seen

\* update_module_width: self.max_module_width.load(SeqCst)
ModuleLoad(t) ==
    /\ pc[t] = "module_load"
    /\ old' = [old EXCEPT ![t] = Some(max_module_width)]
    /\ pc' = [pc EXCEPT ![t] = "module_cas"]
    /\ UNCHANGED <<globals, history, record, accepted, module_length,
                   target_length, line, wres, attempts, seen, tries>>

\* update_module_width: max, compare_and_swap, return or loop; then log's
\* `module == target`
ModuleCas(t) ==
    /\ pc[t] = "module_cas"
    /\ LET module == ModuleOf(record[t])
           new == NewWidth(Get(old[t]), GraphemeCount(module))
           cas == compare_and_swap(max_module_width, Get(old[t]), new)
           won == cas.prev = Get(old[t])
       IN  /\ max_module_width' = cas.stored
           /\ Account(t, "module", cas, won)
           /\ IF won
              THEN /\ module_length' = [module_length EXCEPT ![t] = Some(new)]
                   /\ old' = [old EXCEPT ![t] = None]
                   /\ IF SameTarget(module, record[t].target)
                      THEN /\ pc' = [pc EXCEPT ![t] = "write"]
                           /\ UNCHANGED submitted
                      ELSE /\ pc' = [pc EXCEPT ![t] = "target_load"]
                           /\ submitted' =
                                [submitted EXCEPT !.target =
                                   Max(@, GraphemeCount(record[t].target))]
              ELSE /\ pc' = [pc EXCEPT ![t] = LoopHead("module")]
                   /\ UNCHANGED <<old, module_length, submitted>>
    /\ UNCHANGED <<logger, max_target_width, ansi, initLog, record, accepted,
                   target_length, line, wres, attempts, calls, written>>

\* update_target_width: self.max_target_width.load(SeqCst)
TargetLoad(t) ==
    /\ pc[t] = "target_load"
    /\ old' = [old EXCEPT ![t] = Some(max_target_width)]
    /\ pc' = [pc EXCEPT ![t] = "target_cas"]
    /\ UNCHANGED <<globals, history, record, accepted, module_length,
                   target_length, line, wres, attempts, seen, tries>>

\* update_target_width: max, compare_and_swap, return or loop
TargetCas(t) ==
    /\ pc[t] = "target_cas"
    /\ LET new == NewWidth(Get(old[t]), GraphemeCount(record[t].target))
           cas == compare_and_swap(max_target_width, Get(old[t]), new)
           won == cas.prev = Get(old[t])
       IN  /\ max_target_width' = cas.stored
           /\ Account(t, "target", cas, won)
           /\ IF won
              THEN /\ target_length' = [target_length EXCEPT ![t] = Some(new)]
                   /\ old' = [old EXCEPT ![t] = None]
                   /\ pc' = [pc EXCEPT ![t] = "write"]
              ELSE /\ pc' = [pc EXCEPT ![t] = LoopHead("target")]
                   /\ UNCHANGED <<old, target_length>>
    /\ UNCHANGED <<logger, max_module_width, ansi, initLog, record, accepted,
                   module_length, line, wres, attempts, calls, written, submitted>>

----------------------------------------------------------------------------
(* Logger::log *)

LogEnter_widthFirst(t, r, cap) ==
    /\ pc[t] = "idle"
    /\ logger # None
    /\ calls < cap
    /\ calls' = calls + 1
    /\ record' = [record EXCEPT ![t] = r]
    /\ accepted' = [accepted EXCEPT ![t] = enabled(Get(logger).level, r.level)]
    /\ max_module_width' = Max(max_module_width, GraphemeCount(ModuleOf(r)))
    /\ pc' = [pc EXCEPT ![t] = IF accepted'[t] THEN "module_load" ELSE "ret"]
    /\ submitted' = [submitted EXCEPT !.module =
                       Max(@, GraphemeCount(ModuleOf(r)))]
    /\ UNCHANGED <<logger, max_target_width, ansi, initLog, old, module_length,
                   target_length, line, wres, attempts, seen, tries, written,
                   retries, increases>>

\* log: `if !self.enabled(record.metadata()) { return; }`, then module,
\* target and the call of update_module_width
LogEnter(t, r, cap) ==
    /\ pc[t] = "idle"
    /\ logger # None
    /\ calls < cap
    /\ calls' = calls + 1
    /\ record' = [record EXCEPT ![t] = r]
    /\ accepted' = [accepted EXCEPT ![t] = enabled(Get(logger).level, r.level)]
    /\ IF accepted'[t]
       THEN /\ pc' = [pc EXCEPT ![t] = "module_load"]
            /\ submitted' = [submitted EXCEPT !.module =
                               Max(@, GraphemeCount(ModuleOf(r)))]
       ELSE /\ pc' = [pc EXCEPT ![t] = "ret"]
            /\ UNCHANGED submitted
    /\ UNCHANGED <<globals, old, module_length, target_length, line, wres,
                   attempts, seen, tries, written, retries, increases>>

AfterWrite_retry(result) == IF result = "Err" THEN "write" ELSE "ret"

\* `let _ = ...;` drops the io::Result and log returns
AfterWrite(result) == "ret"

\* log: the writeln! of the 3-field or the 4-field line to
\* self.destination.write(); the stream answers one of `results`
Write(t, results) ==
    /\ pc[t] = "write"
    /\ LET r      == record[t]
           module == ModuleOf(r)
           label  == paint_log_level(Get(logger).theme, r.level)
           ln     == IF SameTarget(module, r.target)
                     THEN Format3(label, Get(module_length[t]), module, r.args)
                     ELSE Format4(label, Get(module_length[t]), module,
                                  Get(target_length[t]), r.target, r.args)
       IN  \E result \in results :
              /\ line' = [line EXCEPT ![t] = ln]
              /\ wres' = [wres EXCEPT ![t] = result]
              /\ attempts' = [attempts EXCEPT ![t] = @ + 1]
              /\ written' = IF result = "Ok"
                            THEN [written EXCEPT ![Get(logger).destination] = @ + 1]
                            ELSE written
              /\ pc' = [pc EXCEPT ![t] = AfterWrite(result)]
    /\ UNCHANGED <<globals, record, accepted, old, module_length, target_length,
                   seen, tries, calls, submitted, retries, increases>>

NoSeen == [c \in Counters |-> None]

\* log returns to its caller; its locals are gone
Return(t) ==
    /\ pc[t] = "ret"
    /\ pc' = [pc EXCEPT ![t] = "idle"]
    /\ record' = [record EXCEPT ![t] = NoRecord]
    /\ accepted' = [accepted EXCEPT ![t] = FALSE]
    /\ old' = [old EXCEPT ![t] = None]
    /\ module_length' = [module_length EXCEPT ![t] = None]
    /\ target_length' = [target_length EXCEPT ![t] = None]
    /\ line' = [line EXCEPT ![t] = NoLine]
    /\ wres' = [wres EXCEPT ![t] = NoResult]
    /\ attempts' = [attempts EXCEPT ![t] = 0]
    /\ seen' = [seen EXCEPT ![t] = NoSeen]
    /\ tries' = [tries EXCEPT ![t] = 0]
    /\ UNCHANGED <<globals, history>>

----------------------------------------------------------------------------
(* Construction and registration *)

\* Logger::new
Logger_new(destination, level, theme) ==
    [destination |-> destination, level |-> level,
     max_module_width |-> 0, max_target_width |-> 0, theme |-> theme]

\* Logger::default, given what destination.isatty() answers
Logger_default(tty) ==
    Logger_new(DestinationDefault, "Info",
               IF tty THEN ThemeDefault ELSE ThemeEmpty)

Config(lg) ==
    [destination |-> lg.destination, level |-> lg.level, theme |-> lg.theme]

set_logger_replace(lg) ==
    /\ logger' = Some(Config(lg))
    /\ max_module_width' = lg.max_module_width
    /\ max_target_width' = lg.max_target_width
    /\ initLog' = Append(initLog, "Ok")

\* Logger::set_logger: log::set_boxed_logger installs the logger if none is
\* installed yet and answers SetLoggerError otherwise (the rejected logger
\* is dropped)
set_logger(lg) ==
    IF logger = None
    THEN /\ logger' = Some(Config(lg))
         /\ max_module_width' = lg.max_module_width
         /\ max_target_width' = lg.max_target_width
         /\ initLog' = Append(initLog, "Ok")
    ELSE /\ UNCHANGED <<logger, max_module_width, max_target_width>>
         /\ initLog' = Append(initLog, "SetLoggerError")

\* platform_init: nothing off Windows; on Windows enable_ansi_support, whose
\* failure is dropped
platform_init == ansi' \in {ansi, TRUE}

\* The arguments an init* call is tried with.  set_boxed_logger drops a
\* rejected logger unread, so once a logger is installed every argument
\* leads to the same state and one stands for all.
Inputs(S) == IF logger = None THEN S ELSE {CHOOSE x \in S : TRUE}

\* init(destination, level, theme)
init ==
    /\ Len(initLog) < MaxInits
    /\ platform_init
    /\ \E a \in Inputs(Destinations \X LevelFilters \X Themes) :
          set_logger(Logger_new(a[1], a[2], a[3]))
    /\ UNCHANGED <<locals, history>>

\* init_level(level)
init_level ==
    /\ Len(initLog) < MaxInits
    /\ platform_init
    /\ \E a \in Inputs(LevelFilters \X BOOLEAN) :
          set_logger([Logger_default(a[2]) EXCEPT !.level = a[1]])
    /\ UNCHANGED <<locals, history>>

\* init_to_defaults()
init_to_defaults ==
    /\ Len(initLog) < MaxInits
    /\ platform_init
    /\ \E tty \in Inputs(BOOLEAN) :
          set_logger(Logger_default(tty))
    /\ UNCHANGED <<locals, history>>

----------------------------------------------------------------------------
(* Specifications *)

InitLocals(T) ==
    /\ pc = [t \in T |-> "idle"]
    /\ record = [t \in T |-> NoRecord]
    /\ accepted = [t \in T |-> FALSE]
    /\ old = [t \in T |-> None]
    /\ module_length = [t \in T |-> None]
    /\ target_length = [t \in T |-> None]
    /\ line = [t \in T |-> NoLine]
    /\ wres = [t \in T |-> NoResult]
    /\ attempts = [t \in T |-> 0]
    /\ seen = [t \in T |-> NoSeen]
    /\ tries = [t \in T |-> 0]
    /\ calls = 0
    /\ written = [d \in Destinations |-> 0]
    /\ submitted = [c \in Counters |-> 0]
    /\ retries = [c \in Counters |-> 0]
    /\ increases = [c \in Counters |-> 0]

\* a process before any init call
Init ==
    /\ logger = None
    /\ max_module_width = 0
    /\ max_target_width = 0
    /\ ansi = FALSE
    /\ initLog = <<>>
    /\ InitLocals(MainThreads)

\* what a write to the stream may answer: a healthy stream, any stream
Healthy   == {"Ok"}
AnyStream == {"Ok", "Err"}

Step(t, results) ==
    \/ ModuleLoad(t)
    \/ ModuleCas(t)
    \/ TargetLoad(t)
    \/ TargetCas(t)
    \/ Write(t, results)
    \/ Return(t)

Next ==
    \/ init
    \/ init_level
    \/ init_to_defaults
    \/ \E t \in MainThreads : \E r \in MainRecords : LogEnter(t, r, MaxCalls)
    \/ \E t \in MainThreads : Step(t, AnyStream)

Spec == Init /\ [][Next]_vars

\* the loggers the concurrent callers of FairSpec run under
ConcLevels == {"Info"}

\* a process right after init(Stderr, level, Theme::empty()) succeeded
FairInit ==
    /\ \E l \in ConcLevels :
          LET lg == Logger_new("Stderr", l, ThemeEmpty)
          IN  /\ logger = Some(Config(lg))
              /\ max_module_width = lg.max_module_width
              /\ max_target_width = lg.max_target_width
    /\ ansi = FALSE
    /\ initLog = <<"Ok">>
    /\ InitLocals(Threads)

FairNext ==
    \/ \E t \in Threads : \E r \in ConcRecords : LogEnter(t, r, MaxConcCalls)
    \/ \E t \in Threads : Step(t, Healthy)

\* every thread inside log keeps being scheduled
FairSpec ==
    FairInit /\ [][FairNext]_vars /\ \A t \in Threads : WF_vars(Step(t, Healthy))

----------------------------------------------------------------------------
(* What the claims speak of *)

\* most severe first
SeverityOrder == <<"Error", "Warn", "Info", "Debug", "Trace">>

Position(l) == CHOOSE i \in 1..Len(SeverityOrder) : SeverityOrder[i] = l

AtLeastAsSevere(l, threshold) == Position(l) <= Position(threshold)

ShouldAccept(threshold, l) ==
    threshold # "Off" /\ AtLeastAsSevere(l, threshold)

IsPrefix(p, s) == Len(p) <= Len(s) /\ SubSeq(s, 1, Len(p)) = p

T == DOMAIN pc

InModuleUpdate(t) == pc[t] \in {"module_load", "module_cas"}
InTargetUpdate(t) == pc[t] \in {"target_load", "target_cas"}
AllReturned == \A t \in T : pc[t] = "idle"

\* thread t takes a step of log
Moves(t) == pc'[t] # pc[t]

Disabled(r) == ~ShouldAccept(Get(logger).level, r.level)

----------------------------------------------------------------------------
\* C1: enabled answers true iff the threshold is not Off and the record's
\* severity is at least as severe as the threshold (Error > Warn > Info >
\* Debug > Trace); under Off it answers false for every severity.
C1_EnabledMatchesOrder ==
    \A t \in T :
        pc[t] # "idle" =>
            accepted[t] = ShouldAccept(Get(logger).level, record[t].level)

C1_Witness ==
    \E t \in T :
        /\ pc[t] = "ret"
        /\ Get(logger).level = "Off"
        /\ record[t].level = "Error"
        /\ ~accepted[t]

----------------------------------------------------------------------------
\* C2: a log call whose record is not enabled never enters a width update
\* or the write, and none of its steps changes a width counter or what
\* reached a destination.
C2_DisabledState ==
    \A t \in T :
        (pc[t] # "idle" /\ Disabled(record[t])) =>
            /\ pc[t] = "ret"
            /\ attempts[t] = 0
            /\ line[t] = NoLine
            /\ old[t] = None
            /\ module_length[t] = None
            /\ target_length[t] = None

C2_DisabledStep ==
    \A t \in T :
        (/\ Moves(t)
         /\ \/ pc[t] # "idle" /\ Disabled(record[t])
            \/ pc'[t] # "idle" /\ Disabled(record'[t]))
        => /\ max_module_width' = max_module_width
           /\ max_target_width' = max_target_width
           /\ written' = written

\* C2: a call whose record is not enabled changes no width counter and
\* writes nothing, in every state and at every step.
C2_DisabledNoEffect == []C2_DisabledState /\ [][C2_DisabledStep]_vars

C2_Witness ==
    \E t \in T :
        /\ pc[t] = "ret"
        /\ ~accepted[t]
        /\ GraphemeCount(ModuleOf(record[t])) > max_module_width
        /\ \E u \in T \ {t} : pc[u] = "module_cas"

----------------------------------------------------------------------------
\* C3: no lost update: whenever no call of a width update is running, the
\* counter equals the maximum of 0 and every candidate submitted to it.
C3_NoLostUpdate ==
    /\ (\A t \in T : ~InModuleUpdate(t)) => max_module_width = submitted.module
    /\ (\A t \in T : ~InTargetUpdate(t)) => max_target_width = submitted.target

C3_Witness ==
    /\ AllReturned
    /\ calls = MaxConcCalls
    /\ retries.module >= 2
    /\ max_module_width = 2
    /\ max_target_width = 1

----------------------------------------------------------------------------
\* C4: both counters start at 0 and no step lowers one; a width update
\* returns the maximum of the value its successful compare-and-swap
\* replaced and its candidate.
C4_Returned ==
    \A t \in T :
        /\ module_length[t] # None =>
              Get(module_length[t]) =
                  Max(Get(seen[t].module), GraphemeCount(ModuleOf(record[t])))
        /\ target_length[t] # None =>
              Get(target_length[t]) =
                  Max(Get(seen[t].target), GraphemeCount(record[t].target))

C4_NoDecrease ==
    /\ max_module_width' >= max_module_width
    /\ max_target_width' >= max_target_width

\* C4: the counters start at 0, never decrease, and every update returns
\* max(value replaced, candidate).
C4_Monotone ==
    /\ max_module_width = 0 /\ max_target_width = 0
    /\ [][C4_NoDecrease]_vars
    /\ []C4_Returned

C4_Witness ==
    \E t \in T :
        /\ module_length[t] # None
        /\ Get(module_length[t]) > GraphemeCount(ModuleOf(record[t]))
        /\ Get(seen[t].module) = 2
        /\ retries.module >= 1

----------------------------------------------------------------------------
\* C5: the module text, and in the 4-field form the target text, appears in
\* full in the rendered line.
C5_NoTruncation ==
    \A t \in T :
        line[t] # NoLine =>
            /\ IsPrefix(ModuleOf(record[t]), line[t][2])
            /\ Len(line[t]) = 4 => IsPrefix(record[t].target, line[t][3])

----------------------------------------------------------------------------
\* C6: the rendered module field is at least as wide as the width the
\* call's update returned, and so is the rendered target field.
C6_PadsToWidth ==
    \A t \in T :
        line[t] # NoLine =>
            /\ GraphemeCount(line[t][2]) >= Get(module_length[t])
            /\ Len(line[t]) = 4 =>
                  GraphemeCount(line[t][3]) >= Get(target_length[t])

----------------------------------------------------------------------------
\* C7: an accepted record has its module width updated first; with target
\* equal to module it is rendered as the 3 fields level, module, message
\* and no step of the call changes the target counter; otherwise the target
\* width is updated and the 4 fields level, module, target, message are
\* rendered.  One line is handed to the stream per accepted record, and the
\* stream's count grows by one when it takes it.
C7_Rendered ==
    \A t \in T :
        /\ pc[t] \in {"target_load", "target_cas", "write"} =>
              module_length[t] # None
        /\ (pc[t] = "ret" /\ accepted[t]) =>
              LET r      == record[t]
                  module == ModuleOf(r)
                  ln     == line[t]
              IN  /\ attempts[t] = 1
                  /\ module_length[t] # None
                  /\ ln[1] = paint_log_level(Get(logger).theme, r.level)
                  /\ ln[Len(ln)] = r.args
                  /\ IsPrefix(ln[2], module)
                  /\ IF module = r.target
                     THEN /\ Len(ln) = 3
                          /\ target_length[t] = None
                          /\ seen[t].target = None
                     ELSE /\ Len(ln) = 4
                          /\ target_length[t] # None
                          /\ IsPrefix(ln[3], r.target)

C7_Step ==
    \A t \in T :
        /\ (Moves(t) /\ pc[t] # "idle" /\ ModuleOf(record[t]) = record[t].target)
              => max_target_width' = max_target_width
        /\ (pc[t] = "write" /\ Moves(t) /\ wres'[t] = "Ok")
              => written' = [written EXCEPT ![Get(logger).destination] = @ + 1]

\* C7: format selection, in every state and at every step.
C7_FormatSelection == []C7_Rendered /\ [][C7_Step]_vars

C7_Witness ==
    \E t \in T :
        /\ pc[t] = "ret"
        /\ accepted[t]
        /\ wres[t] = "Ok"
        /\ Len(line[t]) = 3
        /\ max_target_width > 0
        /\ written[Get(logger).destination] = 2

----------------------------------------------------------------------------
\* C8: the first init* call succeeds and installs its Logger; every later
\* one answers the already-initialized error and leaves the installed
\* logger and its width counters as they are; an installed logger is never
\* replaced.
C8_Results ==
    /\ \A i \in 1..Len(initLog) :
          initLog[i] = IF i = 1 THEN "Ok" ELSE "SetLoggerError"
    /\ (logger = None) <=> (initLog = <<>>)

C8_Kept ==
    logger # None =>
        /\ logger' = logger
        /\ initLog' # initLog =>
              /\ max_module_width' = max_module_width
              /\ max_target_width' = max_target_width

\* C8: registration is set-once.
C8_SetOnce == []C8_Results /\ [][C8_Kept]_vars

C8_Witness ==
    /\ Len(initLog) = 2
    /\ initLog[2] = "SetLoggerError"
    /\ max_module_width > 0
    /\ max_target_width > 0
    /\ Get(logger).level = "Trace"

----------------------------------------------------------------------------
\* C9: a failed write ends the call: log returns, the record is written at
\* most once, nothing reaches a stream by the failed write, and no line
\* ever reaches the other destination.
C9_State ==
    \A t \in T :
        /\ attempts[t] <= 1
        /\ wres[t] = "Err" => (pc[t] = "ret" /\ attempts[t] = 1)
        /\ logger # None =>
              \A d \in Destinations \ {Get(logger).destination} : written[d] = 0

C9_Step ==
    \A t \in T :
        (wres[t] # "Err" /\ wres'[t] = "Err") => written' = written

\* C9: a write failure is swallowed, never retried, never written elsewhere.
C9_WriteFailureSwallowed == []C9_State /\ [][C9_Step]_vars

C9_Witness ==
    \E t \in T :
        /\ pc[t] = "ret"
        /\ wres[t] = "Err"
        /\ attempts[t] = 1
        /\ calls = 2
        /\ written[Get(logger).destination] = 1

----------------------------------------------------------------------------
\* C10 as stated: the total number of retries of a counter's update is
\* bounded by the number of strict increases of that counter.
C10_TotalRetriesBounded ==
    \A c \in Counters : retries[c] <= increases[c]

\* C10, amended: with fair scheduling every update returns; a
\* compare-and-swap fails only if the counter rose above the value the call
\* loaded; one call retries at most once per strict increase of its
\* counter, so the retries of a counter total at most the strict increases
\* times the number of other callers.
C10_FailsOnlyAfterIncrease ==
    \A t \in T :
        /\ (pc[t] = "module_cas" /\ max_module_width # Get(old[t]))
              => max_module_width > Get(old[t])
        /\ (pc[t] = "target_cas" /\ max_target_width # Get(old[t]))
              => max_target_width > Get(old[t])

C10_RetriesBounded ==
    /\ \A t \in T :
          /\ InModuleUpdate(t) => tries[t] <= increases.module
          /\ InTargetUpdate(t) => tries[t] <= increases.target
    /\ \A c \in Counters :
          retries[c] <= (Cardinality(T) - 1) * increases[c]

C10_Returns ==
    \A t \in Threads :
        (InModuleUpdate(t) \/ InTargetUpdate(t)) ~> pc[t] = "idle"

\* C10, amended: the retry loop terminates and its retries are bounded.
C10_RetryLoopTerminates ==
    /\ []C10_FailsOnlyAfterIncrease
    /\ []C10_RetriesBounded
    /\ C10_Returns

C10_Witness ==
    /\ AllReturned
    /\ calls = MaxConcCalls
    /\ retries.module = 2
    /\ increases.module = 1

====
